---- MODULE Spec2Model ----
(***************************************************************************)
(* Model of cms_modeller.execute_bootstrap (src/cms/cms_modeller.py) as a  *)
(* sequential state machine: one action per statement group, a program     *)
(* counter pc, the function's locals, the report file it writes, and the   *)
(* module namespace G it reads its free names from; and of run_traj,       *)
(* write_bin_paramfile and check_bin_filled                                *)
(* (src/cms/dists/freqbins_func.py).                                       *)
(*                                                                         *)
(* execute_bootstrap never assigns the names i, nsnps, totalregions,       *)
(* allRegionPI, allseqlens, allRegionDER, allRegionANC, nhist, random, np, *)
(* ldfilename, mafcutoffdprime, allRegionr2, allRegionDists,               *)
(* nphysdisthist, allRegionDprime, allRegionGendists, ngendisthist: Python *)
(* resolves them in the module namespace at the moment of the read.  The   *)
(* module itself binds none of them (lines 4-13), so run as a script every *)
(* read raises NameError; a caller that imports the module can bind them.  *)
(* The namespace is therefore an input of the function, drawn in Init.     *)
(*                                                                         *)
(* model/bootstrap_func.py (flattenList, checkFileExists, the readers and  *)
(* the estimators) is not among the sources; those operators follow the    *)
(* specification's description of the point estimators.                    *)
(***************************************************************************)
EXTENDS Integers, Sequences, FiniteSets, TLC

(***************************************************************************)
(* Bounds of the model.                                                    *)
(***************************************************************************)
MaxPops == 2
MaxReps == 2
MaxRegions == 2
MaxBins == 2

MinReps == 0 - 1

\* freqbins_func: the largest maxAttempts argument, the number of simulator
\* invocations after which the model stops following run_traj, the lines of
\* a parameter file and the pieces of a line
MaxAttemptsArg == 3
MaxInvocations == 6
MaxLines == 2
MaxLineLen == 3

\* freqbins_func: the file names of a directory, the lines of a file, and
\* the largest numsims argument
MaxFiles == 2
MaxFileLines == 1
MaxNumsims == 3

FileNames == {<<"a">>, <<"b">>}

\* the value None, comparable with the character sequences that model strings
None == <<"None">>
Unbound == "Unbound"

(***************************************************************************)
(* Free names of execute_bootstrap.                                        *)
(***************************************************************************)
FreqNames == {"i", "nsnps", "totalregions", "allRegionPI", "allseqlens",
              "allRegionDER", "allRegionANC", "nhist", "random", "np"}
LDNames == {"i", "ldfilename", "mafcutoffdprime", "allRegionr2",
            "allRegionDists", "nphysdisthist", "allRegionDprime",
            "allRegionGendists", "ngendisthist", "random", "np"}
FreeNames == FreqNames \cup LDNames

(***************************************************************************)
(* Sequences and arithmetic.                                               *)
(***************************************************************************)
SeqsUpTo(S, n) == UNION {[1..k -> S] : k \in 0..n}

RECURSIVE sum(_)
sum(s) == IF s = <<>> THEN 0 ELSE Head(s) + sum(Tail(s))

RECURSIVE flattenList(_)
flattenList(ll) == IF ll = <<>> THEN <<>> ELSE Head(ll) \o flattenList(Tail(ll))

RECURSIVE GCD(_, _)
GCD(a, b) == IF b = 0 THEN a ELSE GCD(b, a % b)

\* the quotient without the conversion to float: n/d of two Python 2 integers
Quot_Floor(n, d) == <<n \div d, 1>>

\* the quotient n/d of two non-negative numbers, d > 0, in lowest terms
Quot(n, d) == LET g == GCD(n, d) IN <<n \div g, d \div g>>

Min(a, b) == IF a < b THEN a ELSE b

\* str.split(sep) on a string held as a sequence of characters
RECURSIVE split(_, _)
split(str, sep) ==
    IF \A k \in 1..Len(str) : str[k] # sep THEN <<str>>
    ELSE LET k == CHOOSE x \in 1..Len(str) :
                      str[x] = sep /\ \A y \in 1..(x - 1) : str[y] # sep
         IN <<SubSeq(str, 1, k - 1)>> \o split(SubSeq(str, k + 1, Len(str)), sep)

\* sep.join(names)
RECURSIVE join(_, _)
join(sep, names) ==
    IF names = <<>> THEN <<>>
    ELSE IF Len(names) = 1 THEN names[1]
    ELSE names[1] \o <<sep>> \o join(sep, Tail(names))

\* random.randint(a, b): any integer of a..b
randint(a, b) == a..b

\* the sample standard deviation, np.std(xs, ddof=1): nan on fewer than two
\* elements
npstd_ddof1(xs) == IF Len(xs) <= 1 THEN "nan"
                   ELSE IF \A k \in 1..Len(xs) : xs[k] = xs[1] THEN "zero"
                   ELSE "pos"

\* np.std of a list of numbers, up to its sign: nan on the empty list,
\* zero exactly when all elements are equal
npstd(xs) == IF xs = <<>> THEN "nan"
             ELSE IF \A k \in 1..Len(xs) : xs[k] = xs[1] THEN "zero"
             ELSE "pos"

\* the elements of xs at the drawn 0-based indices
Resample(xs, idx) == [k \in 1..Len(idx) |-> xs[idx[k] + 1]]

\* the second list filled from the loop counter: ys[k] in place of ys[index]
ResamplePaired_ByCounter(ys, idx) == [k \in 1..Len(idx) |-> ys[k]]

\* the second append of a replicate's inner loop takes its element at the
\* index drawn for the first
ResamplePaired(ys, idx) == Resample(ys, idx)

(***************************************************************************)
(* Point estimators.                                                       *)
(***************************************************************************)
PiDefined(seqlens) == sum(seqlens) # 0
estimatePi(pis, seqlens) == Quot(sum(pis), sum(seqlens))

\* frequency bin of a site with der derived and anc ancestral alleles
FreqBin(der, anc, nbins) == Min(nbins - 1, (der * nbins) \div (der + anc))

\* mafhist[b+1]: sites of bin b; anchist[b+1]: their ancestral counts
estimateFreqSpectrum(ders, ancs, nbins) ==
    LET inbin(b) == {k \in 1..Len(ders) : FreqBin(ders[k], ancs[k], nbins) = b}
        RECURSIVE total(_)
        total(S) == IF S = {} THEN 0
                    ELSE LET k == CHOOSE x \in S : TRUE
                         IN ancs[k] + total(S \ {k})
    IN [mafhist |-> [b \in 1..nbins |-> Cardinality(inbin(b - 1))],
        anchist |-> [b \in 1..nbins |-> total(inbin(b - 1))]]

\* width of a physical-distance bin and of a genetic-distance bin; the bin
\* edges are fixed before estimation and the last bin is open-ended
PhysBinWidth == 10
GenBinWidth == 10

DistBin(dist, width, nbins) == Min(nbins - 1, dist \div width)

\* per bin, the sum of the values and the number of pairs that fall into it
DecayHist(vals, dists, width, nbins) ==
    LET inbin(b) == {k \in 1..Len(vals) : DistBin(dists[k], width, nbins) = b}
        RECURSIVE total(_)
        total(S) == IF S = {} THEN 0
                    ELSE LET k == CHOOSE x \in S : TRUE
                         IN vals[k] + total(S \ {k})
    IN [sums |-> [b \in 1..nbins |-> total(inbin(b - 1))],
        counts |-> [b \in 1..nbins |-> Cardinality(inbin(b - 1))]]

\* r2sums and physDistHist; no pseudo-count is applied inside the estimator
estimater2decay(r2s, dists, nbins) == DecayHist(r2s, dists, PhysBinWidth, nbins)

\* compLDhist and genDistHist; no pseudo-count is applied inside the estimator
estimatedprimedecay(dprimes, gendists, nbins) == DecayHist(dprimes, gendists, GenBinWidth, nbins)

(***************************************************************************)
(* The module namespace.                                                   *)
(***************************************************************************)
RegionPool == {[pi |-> 1, len |-> 2, sites |-> <<[der |-> 1, anc |-> 3]>>],
               [pi |-> 2, len |-> 2, sites |-> <<[der |-> 3, anc |-> 1]>>],
               [pi |-> 1, len |-> 3, sites |-> <<>>]}

FreqData(regions) ==
    [allRegionPI |-> [r \in 1..Len(regions) |-> regions[r].pi],
     allseqlens |-> [r \in 1..Len(regions) |-> regions[r].len],
     allRegionDER |-> [r \in 1..Len(regions) |->
                         [s \in 1..Len(regions[r].sites) |-> regions[r].sites[s].der]],
     allRegionANC |-> [r \in 1..Len(regions) |->
                         [s \in 1..Len(regions[r].sites) |-> regions[r].sites[s].anc]],
     totalregions |-> Len(regions),
     nsnps |-> sum([r \in 1..Len(regions) |-> Len(regions[r].sites)])]

\* a pair below the D' frequency cutoff has r2 logged but not D'
PairPool == {[r2 |-> 1, dist |-> 5, dprime |-> 1, gendist |-> 2, cut |-> FALSE],
             [r2 |-> 2, dist |-> 15, dprime |-> 0, gendist |-> 12, cut |-> FALSE],
             [r2 |-> 1, dist |-> 5, dprime |-> 1, gendist |-> 2, cut |-> TRUE]}
LDRegionPool == SeqsUpTo(PairPool, 1)

AboveCutoff(pair) == ~pair.cut

LDData(regions) ==
    [allRegionr2 |-> [r \in 1..Len(regions) |->
                        [s \in 1..Len(regions[r]) |-> regions[r][s].r2]],
     allRegionDists |-> [r \in 1..Len(regions) |->
                           [s \in 1..Len(regions[r]) |-> regions[r][s].dist]],
     allRegionDprime |-> [r \in 1..Len(regions) |->
                            LET kept == SelectSeq(regions[r], AboveCutoff)
                            IN [s \in 1..Len(kept) |-> kept[s].dprime]],
     allRegionGendists |-> [r \in 1..Len(regions) |->
                              LET kept == SelectSeq(regions[r], AboveCutoff)
                              IN [s \in 1..Len(kept) |-> kept[s].gendist]]]

\* A local that no later statement reads before its next assignment is held
\* as Unbound from its last read on (the standard-error step of its
\* statistic), as it is before its first assignment.
VARIABLES argv, args, files, G, pc, err, writefile, closed,
          inputfilenames, npops, ipop, inputfilename, allpi,
          j, estimates, rep_pis, rep_seqlens,
          sfs_mean, anc_mean, estimates_sfs, estimates_anc,
          rep_all_nderiv, rep_all_nanc,
          alldists, physDistHist, estimates_r2, rep_all_r2, rep_all_physdist,
          repphysdisthist, genDistHist, estimates_dprime, rep_all_dprime,
          rep_all_gendist, repgenDistHist, npopcomp,
          run, first, drawn,
          run_traj, write_bin_paramfile, check_bin_filled

vars == <<argv, args, files, G, pc, err, writefile, closed,
          inputfilenames, npops, ipop, inputfilename, allpi,
          j, estimates, rep_pis, rep_seqlens,
          sfs_mean, anc_mean, estimates_sfs, estimates_anc,
          rep_all_nderiv, rep_all_nanc,
          alldists, physDistHist, estimates_r2, rep_all_r2, rep_all_physdist,
          repphysdisthist, genDistHist, estimates_dprime, rep_all_dprime,
          rep_all_gendist, repgenDistHist, npopcomp,
          run, first, drawn,
          run_traj, write_bin_paramfile, check_bin_filled>>

\* run: 0 in a single call, 1 and 2 in the first and second of two calls on
\* the same inputs; first: what the first call left behind; drawn: the
\* index vectors that random.randint has produced in the current call
calls == <<run, first>>

\* the calls of run_traj, write_bin_paramfile and check_bin_filled
\* (src/cms/dists/freqbins_func.py), each held as the record of its
\* program counter, its arguments and its locals
freqbins == <<run_traj, write_bin_paramfile, check_bin_filled>>
NotCalled == [pc |-> "notcalled"]

ldlocals == <<alldists, physDistHist, estimates_r2, rep_all_r2, rep_all_physdist,
              repphysdisthist, genDistHist, estimates_dprime, rep_all_dprime,
              rep_all_gendist, repgenDistHist>>

freqlocals == <<j, estimates, rep_pis, rep_seqlens, sfs_mean, anc_mean,
                estimates_sfs, estimates_anc, rep_all_nderiv, rep_all_nanc>>
looplocals == <<inputfilenames, npops, ipop, inputfilename, allpi>>
inputs == <<argv, args, files, G>>

bound(name) == name \notin G.unbound

\* an uncaught exception of type e, raised by the statement at the given
\* line, leaves execute_bootstrap; the report stays open
NoError == [type |-> "none", line |-> 0]
Raise(e, line) == /\ pc' = "raised"
                  /\ err' = [type |-> e, line |-> line]

\* writefile.write(...): one entry per call
Entry(fam, pop, kind, val, end) ==
    [fam |-> fam, pop |-> pop, kind |-> kind, val |-> val, end |-> end]

\* the index vector idx is what random.randint produces for one replicate:
\* any vector in a single call and in the first of two calls, and in the
\* second call, made with the generator in the state of the first, the
\* vector the first call drew at the same position
Draw(idx) ==
    /\ run = 2 => /\ Len(drawn) < Len(first.drawn)
                  /\ idx = first.drawn[Len(drawn) + 1]
    /\ drawn' = IF run = 0 THEN drawn ELSE Append(drawn, idx)

\* the report opened for appending: open(targetstats_filename, 'a')
OpenReport_Append(onDisk) == onDisk

\* open(targetstats_filename, 'w'): what the file held is discarded
OpenReport(onDisk) == <<>>

\* a replicate loop that stops one draw short: range(totalregions - 1)
PiIndices_OneShort(totalregions) == [1..(totalregions - 1) -> randint(0, totalregions - 1)]

\* the indices drawn by the inner loop of one replicate: n draws from 0..n-1
PiIndices(totalregions) == [1..totalregions -> randint(0, totalregions - 1)]
SfsIndices(nsnps) == [1..nsnps -> randint(0, nsnps - 1)]
R2Indices(nsnppairs) == [1..nsnppairs -> randint(0, nsnppairs - 1)]
DprimeIndices(nsnppairs) == [1..nsnppairs -> randint(0, nsnppairs - 1)]

\* the pseudo-count loops: a bin count of 0 becomes 1
PseudoR2Rep(repphysdisthist_) ==
    [ibin \in 1..Len(repphysdisthist_) |->
        IF repphysdisthist_[ibin] = 0 THEN 1 ELSE repphysdisthist_[ibin]]
PseudoDprimeMean_EveryBin(genDistHist_) ==
    [ibin \in 1..Len(genDistHist_) |-> genDistHist_[ibin] + 1]
PseudoDprimeMean(genDistHist_) ==
    [ibin \in 1..Len(genDistHist_) |->
        IF genDistHist_[ibin] = 0 THEN genDistHist_[ibin] + 1 ELSE genDistHist_[ibin]]
PseudoDprimeRep(repgenDistHist_) ==
    [ibin \in 1..Len(repgenDistHist_) |->
        IF repgenDistHist_[ibin] = 0 THEN 1 ELSE repgenDistHist_[ibin]]

\* the vector lines with the SFS standard error written before the SFS mean
FreqVectorLines_SEFirst(pop, sfsm, sfs_se, ancm, anc_se) ==
    <<Entry("freq", pop, "sfs_se", sfs_se, "\n"),
      Entry("freq", pop, "sfs_mean", sfsm, "\n"),
      Entry("freq", pop, "anc_mean", ancm, "\n"),
      Entry("freq", pop, "anc_se", anc_se, "\n")>>

\* the vector lines with the ancestral mean written on the line of the SFS mean
FreqVectorLines_AncForSfs(pop, sfsm, sfs_se, ancm, anc_se) ==
    <<Entry("freq", pop, "sfs_mean", ancm, "\n"),
      Entry("freq", pop, "sfs_se", sfs_se, "\n"),
      Entry("freq", pop, "anc_mean", ancm, "\n"),
      Entry("freq", pop, "anc_se", anc_se, "\n")>>

\* the four vector lines of a frequency block
FreqVectorLines(pop, sfsm, sfs_se, ancm, anc_se) ==
    <<Entry("freq", pop, "sfs_mean", sfsm, "\n"),
      Entry("freq", pop, "sfs_se", sfs_se, "\n"),
      Entry("freq", pop, "anc_mean", ancm, "\n"),
      Entry("freq", pop, "anc_se", anc_se, "\n")>>

\* the LD section placed before the frequency section
Sections_LDFirst == <<"ld", "freqs", "fst">>

\* the sections in program order, and the program point after a section
Sections == <<"freqs", "ld", "fst">>
After(section) ==
    LET k == CHOOSE x \in 1..Len(Sections) : Sections[x] = section
    IN IF k = Len(Sections) THEN "close" ELSE Sections[k + 1]

(***************************************************************************)
(* execute_bootstrap, lines 102-175: opening the report and the frequency  *)
(* section.                                                                *)
(***************************************************************************)
nbootstraprep == args.nBootstrapReps

\* os.path.isfile, as checkFileExists reports it
checkFileExists(filename) == filename \in files

\* lines 104-107: the report is opened; nBootstrapReps is not examined
Open ==
    /\ pc = "open"
    /\ writefile' = OpenReport(writefile)
    /\ pc' = Sections[1]
    /\ UNCHANGED <<inputs, freqbins, calls, drawn, ldlocals, npopcomp, err, closed, looplocals, freqlocals>>

\* lines 112-115
FreqSection ==
    /\ pc = "freqs"
    /\ UNCHANGED <<inputs, freqbins, calls, drawn, ldlocals, npopcomp, err, closed, writefile, inputfilename, allpi, freqlocals>>
    /\ IF args.in_freqs = None
       THEN /\ pc' = After("freqs")
            /\ UNCHANGED <<inputfilenames, npops, ipop>>
       ELSE /\ inputfilenames' = split(args.in_freqs, ",")
            /\ npops' = Len(inputfilenames')
            /\ ipop' = 0
            /\ pc' = "f_pop"

\* lines 116-122: the head of the loop over populations
FreqPop ==
    /\ pc = "f_pop"
    /\ UNCHANGED <<inputs, freqbins, calls, drawn, ldlocals, npopcomp, closed, inputfilenames, npops, ipop, freqlocals>>
    /\ IF ipop >= npops
       THEN /\ pc' = After("freqs")
            /\ UNCHANGED <<err, writefile, inputfilename, allpi>>
       ELSE IF ~bound("i")
       THEN /\ Raise("NameError", 117)
            /\ UNCHANGED <<writefile, inputfilename, allpi>>
       ELSE IF G.i >= npops
       THEN /\ Raise("IndexError", 117)
            /\ UNCHANGED <<writefile, inputfilename, allpi>>
       ELSE /\ inputfilename' = inputfilenames[G.i + 1]
            /\ writefile' = Append(writefile, Entry("freq", ipop, "index", ipop, "\n"))
            /\ allpi' = IF checkFileExists(inputfilename') THEN inputfilename' ELSE allpi
            /\ IF bound("nsnps") /\ bound("totalregions")
               THEN pc' = "f_pi" /\ UNCHANGED err
               ELSE Raise("NameError", 122)

\* lines 127-129
PiMean ==
    /\ pc = "f_pi"
    /\ UNCHANGED <<inputs, freqbins, calls, drawn, ldlocals, npopcomp, closed, looplocals, rep_pis, rep_seqlens, sfs_mean, anc_mean,
                   estimates_sfs, estimates_anc, rep_all_nderiv, rep_all_nanc>>
    /\ IF ~(bound("allRegionPI") /\ bound("allseqlens"))
       THEN Raise("NameError", 127) /\ UNCHANGED <<writefile, estimates, j>>
       ELSE IF ~PiDefined(G.allseqlens)
       THEN Raise("ZeroDivisionError", 127) /\ UNCHANGED <<writefile, estimates, j>>
       ELSE /\ writefile' = Append(writefile,
                   Entry("freq", ipop, "pi_mean", estimatePi(G.allRegionPI, G.allseqlens), "\t"))
            /\ estimates' = <<>>
            /\ j' = 0
            /\ pc' = "f_pirep"
            /\ UNCHANGED err

\* lines 130-137: one bootstrap replicate of pi
PiRep ==
    /\ pc = "f_pirep"
    /\ j < nbootstraprep
    /\ UNCHANGED <<inputs, freqbins, calls, ldlocals, npopcomp, closed, looplocals, writefile, sfs_mean, anc_mean,
                   estimates_sfs, estimates_anc, rep_all_nderiv, rep_all_nanc>>
    /\ IF ~bound("totalregions") \/ (G.totalregions > 0 /\ ~bound("random"))
       THEN /\ Raise("NameError", IF bound("totalregions") THEN 133 ELSE 132)
            /\ rep_pis' = <<>>
            /\ rep_seqlens' = <<>>
            /\ UNCHANGED <<estimates, j, drawn>>
       ELSE \E idx \in PiIndices(G.totalregions) :
              /\ Draw(idx)
              /\ rep_pis' = Resample(G.allRegionPI, idx)
              /\ rep_seqlens' = ResamplePaired(G.allseqlens, idx)
              /\ IF PiDefined(rep_seqlens')
                 THEN /\ estimates' = Append(estimates, estimatePi(rep_pis', rep_seqlens'))
                      /\ j' = j + 1
                      /\ UNCHANGED <<pc, err>>
                 ELSE /\ Raise("ZeroDivisionError", 136)
                      /\ UNCHANGED <<estimates, j>>

\* lines 138-139
PiSE ==
    /\ pc = "f_pirep"
    /\ j >= nbootstraprep
    /\ UNCHANGED <<inputs, freqbins, calls, drawn, ldlocals, npopcomp, closed, looplocals, j, sfs_mean, anc_mean,
                   estimates_sfs, estimates_anc, rep_all_nderiv, rep_all_nanc>>
    /\ IF ~bound("np")
       THEN Raise("NameError", 138) /\ UNCHANGED <<writefile, estimates, rep_pis, rep_seqlens>>
       ELSE /\ writefile' = Append(writefile,
                   Entry("freq", ipop, "pi_se", npstd(estimates), "\n"))
            /\ estimates' = Unbound
            /\ rep_pis' = Unbound
            /\ rep_seqlens' = Unbound
            /\ pc' = "f_sfs"
            /\ UNCHANGED err

\* lines 144-152
SfsMean ==
    /\ pc = "f_sfs"
    /\ UNCHANGED <<inputs, freqbins, calls, drawn, ldlocals, npopcomp, closed, looplocals, writefile, estimates, rep_pis, rep_seqlens,
                   rep_all_nderiv, rep_all_nanc>>
    /\ IF ~(bound("allRegionDER") /\ bound("allRegionANC") /\ bound("nhist"))
       THEN /\ Raise("NameError", 144)
            /\ UNCHANGED <<sfs_mean, anc_mean, estimates_sfs, estimates_anc, j>>
       ELSE LET hist == estimateFreqSpectrum(flattenList(G.allRegionDER),
                                             flattenList(G.allRegionANC), G.nhist)
                mafhist == hist.mafhist
                anchist == hist.anchist
                npoly == sum(mafhist)
            IN IF npoly = 0
               THEN /\ Raise("ZeroDivisionError", 146)
                    /\ UNCHANGED <<sfs_mean, anc_mean, estimates_sfs, estimates_anc, j>>
               ELSE /\ sfs_mean' = [b \in 1..Len(mafhist) |-> Quot(mafhist[b], npoly)]
                    /\ IF \E b \in 1..Len(mafhist) : mafhist[b] = 0
                       THEN /\ Raise("ZeroDivisionError", 147)
                            /\ UNCHANGED <<anc_mean, estimates_sfs, estimates_anc, j>>
                       ELSE /\ anc_mean' = [b \in 1..Len(mafhist) |->
                                               Quot(anchist[b], mafhist[b])]
                            /\ estimates_sfs' = [b \in 1..G.nhist |-> <<>>]
                            /\ estimates_anc' = [b \in 1..G.nhist |-> <<>>]
                            /\ j' = 0
                            /\ pc' = "f_sfsrep"
                            /\ UNCHANGED err

\* lines 153-168: one bootstrap replicate of the SFS and the ancestral proportion
SfsRep ==
    /\ pc = "f_sfsrep"
    /\ j < nbootstraprep
    /\ UNCHANGED <<inputs, freqbins, calls, ldlocals, npopcomp, closed, looplocals, writefile, estimates, rep_pis, rep_seqlens,
                   sfs_mean, anc_mean>>
    /\ IF ~bound("nsnps") \/ (G.nsnps > 0 /\ ~bound("random"))
       THEN /\ Raise("NameError", IF bound("nsnps") THEN 158 ELSE 157)
            /\ rep_all_nderiv' = <<>>
            /\ rep_all_nanc' = <<>>
            /\ UNCHANGED <<estimates_sfs, estimates_anc, j, drawn>>
       ELSE \E idx \in SfsIndices(G.nsnps) :
              LET flatanc == flattenList(G.allRegionANC)
                  flatder == flattenList(G.allRegionDER)
                  rephist == estimateFreqSpectrum(Resample(flatder, idx),
                                                  ResamplePaired(flatanc, idx), G.nhist)
                  repmafhist == rephist.mafhist
                  repanchist == rephist.anchist
                  npoly == sum(repmafhist)
                  repsfs == [b \in 1..G.nhist |-> Quot(repmafhist[b], npoly)]
                  repanc == [b \in 1..G.nhist |-> Quot(repanchist[b], repmafhist[b])]
              IN /\ Draw(idx)
                 /\ rep_all_nderiv' = Resample(flatder, idx)
                 /\ rep_all_nanc' = ResamplePaired(flatanc, idx)
                 /\ IF npoly = 0
                    THEN /\ Raise("ZeroDivisionError", 163)
                         /\ UNCHANGED <<estimates_sfs, estimates_anc, j>>
                    ELSE /\ estimates_sfs' = [b \in 1..G.nhist |->
                                                 Append(estimates_sfs[b], repsfs[b])]
                         /\ IF \E b \in 1..G.nhist : repmafhist[b] = 0
                            THEN /\ Raise("ZeroDivisionError", 166)
                                 /\ UNCHANGED <<estimates_anc, j>>
                            ELSE /\ estimates_anc' = [b \in 1..G.nhist |->
                                                         Append(estimates_anc[b], repanc[b])]
                                 /\ j' = j + 1
                                 /\ UNCHANGED <<pc, err>>

\* lines 170-175: the four vector lines; the next population follows
SfsSE ==
    /\ pc = "f_sfsrep"
    /\ j >= nbootstraprep
    /\ UNCHANGED <<inputs, freqbins, calls, drawn, ldlocals, npopcomp, closed, inputfilenames, npops, inputfilename,
                   allpi, j, estimates, rep_pis, rep_seqlens>>
    /\ IF ~bound("np")
       THEN /\ Raise("NameError", 170)
            /\ UNCHANGED <<writefile, ipop, sfs_mean, anc_mean, estimates_sfs, estimates_anc,
                           rep_all_nderiv, rep_all_nanc>>
       ELSE LET sfs_se == [b \in 1..Len(estimates_sfs) |-> npstd(estimates_sfs[b])]
                anc_se == [b \in 1..Len(estimates_anc) |-> npstd(estimates_anc[b])]
            IN /\ writefile' = writefile \o
                     FreqVectorLines(ipop, sfs_mean, sfs_se, anc_mean, anc_se)
               /\ sfs_mean' = Unbound
               /\ anc_mean' = Unbound
               /\ estimates_sfs' = Unbound
               /\ estimates_anc' = Unbound
               /\ rep_all_nderiv' = Unbound
               /\ rep_all_nanc' = Unbound
               /\ ipop' = ipop + 1
               /\ pc' = "f_pop"
               /\ UNCHANGED err

(***************************************************************************)
(* execute_bootstrap, lines 180-259: the LD section.                       *)
(***************************************************************************)
\* lines 180-183
LDSection ==
    /\ pc = "ld"
    /\ UNCHANGED <<inputs, freqbins, calls, drawn, ldlocals, npopcomp, err, closed, writefile, inputfilename,
                   allpi, freqlocals>>
    /\ IF args.in_ld = None
       THEN /\ pc' = After("ld")
            /\ UNCHANGED <<inputfilenames, npops, ipop>>
       ELSE /\ inputfilenames' = split(args.in_ld, ",")
            /\ npops' = Len(inputfilenames')
            /\ ipop' = 0
            /\ pc' = "l_pop"

\* lines 184-189: the head of the loop over populations; the file that is
\* read is ldfilename, and readLDFile is not guarded by checkFileExists
LDPop ==
    /\ pc = "l_pop"
    /\ UNCHANGED <<inputs, freqbins, calls, drawn, npopcomp, closed, inputfilenames, npops, ipop, allpi, freqlocals,
                   physDistHist, estimates_r2, rep_all_r2, rep_all_physdist,
                   repphysdisthist, genDistHist, estimates_dprime, rep_all_dprime,
                   rep_all_gendist, repgenDistHist>>
    /\ IF ipop >= npops
       THEN /\ pc' = After("ld")
            /\ UNCHANGED <<err, writefile, inputfilename, alldists>>
       ELSE IF ~bound("i")
       THEN /\ Raise("NameError", 185)
            /\ UNCHANGED <<writefile, inputfilename, alldists>>
       ELSE IF G.i >= npops
       THEN /\ Raise("IndexError", 185)
            /\ UNCHANGED <<writefile, inputfilename, alldists>>
       ELSE /\ inputfilename' = inputfilenames[G.i + 1]
            /\ writefile' = Append(writefile, Entry("ld", ipop, "index", ipop, "\n"))
            /\ IF ~(bound("ldfilename") /\ bound("mafcutoffdprime"))
               THEN Raise("NameError", 188) /\ UNCHANGED alldists
               ELSE IF ~checkFileExists(G.ldfilename)
               THEN Raise("IOError", 188) /\ UNCHANGED alldists
               ELSE /\ alldists' = G.ldfilename
                    /\ pc' = "l_r2"
                    /\ UNCHANGED err

\* lines 194-201: the r2 mean is divided by the bin counts as estimated
R2Mean ==
    /\ pc = "l_r2"
    /\ UNCHANGED <<inputs, freqbins, calls, drawn, npopcomp, closed, looplocals, freqlocals, alldists,
                   rep_all_r2, rep_all_physdist, repphysdisthist, genDistHist,
                   estimates_dprime, rep_all_dprime, rep_all_gendist, repgenDistHist>>
    /\ IF ~(bound("allRegionr2") /\ bound("allRegionDists"))
       THEN Raise("NameError", 194) /\ UNCHANGED <<writefile, physDistHist, estimates_r2>>
       ELSE LET hist == estimater2decay(flattenList(G.allRegionr2),
                                        flattenList(G.allRegionDists), G.nphysdisthist)
                r2sums == hist.sums
            IN /\ physDistHist' = hist.counts
               /\ IF \E u \in 1..Len(r2sums) : physDistHist'[u] = 0
                  THEN Raise("ZeroDivisionError", 195) /\ UNCHANGED <<writefile, estimates_r2>>
                  ELSE /\ writefile' = Append(writefile,
                              Entry("ld", ipop, "r2_mean",
                                    [u \in 1..Len(r2sums) |-> Quot(r2sums[u], physDistHist'[u])],
                                    "\n"))
                       /\ IF ~bound("nphysdisthist")
                          THEN Raise("NameError", 201) /\ UNCHANGED estimates_r2
                          ELSE /\ estimates_r2' = [b \in 1..G.nphysdisthist |-> <<>>]
                               /\ pc' = "l_r2rep"
                               /\ UNCHANGED err

\* lines 202-219: one bootstrap replicate of the r2 decay
R2Rep ==
    /\ pc = "l_r2rep"
    /\ Len(estimates_r2[1]) < nbootstraprep
    /\ UNCHANGED <<inputs, freqbins, calls, npopcomp, closed, looplocals, freqlocals, writefile, alldists,
                   physDistHist, genDistHist, estimates_dprime, rep_all_dprime,
                   rep_all_gendist, repgenDistHist>>
    /\ LET flatr2 == flattenList(G.allRegionr2)
           flatregions == flattenList(G.allRegionDists)
           nsnppairs == Len(flatr2)
       IN IF nsnppairs > 0 /\ ~bound("random")
          THEN /\ Raise("NameError", 208)
               /\ rep_all_r2' = <<>>
               /\ rep_all_physdist' = <<>>
               /\ UNCHANGED <<estimates_r2, repphysdisthist, drawn>>
          ELSE \E index_r2 \in R2Indices(nsnppairs) :
                 LET rephist == estimater2decay(Resample(flatr2, index_r2),
                                                ResamplePaired(flatregions, index_r2),
                                                G.nphysdisthist)
                     repr2sum == rephist.sums
                     pseudo == PseudoR2Rep(rephist.counts)
                     r2estimate == [u \in 1..Len(repr2sum) |-> Quot(repr2sum[u], pseudo[u])]
                 IN /\ Draw(index_r2)
                    /\ rep_all_r2' = Resample(flatr2, index_r2)
                    /\ rep_all_physdist' = ResamplePaired(flatregions, index_r2)
                    /\ repphysdisthist' = pseudo
                    /\ estimates_r2' = [b \in 1..G.nphysdisthist |->
                                           Append(estimates_r2[b], r2estimate[b])]
                    /\ UNCHANGED <<pc, err>>

\* lines 221-222
R2SE ==
    /\ pc = "l_r2rep"
    /\ Len(estimates_r2[1]) >= nbootstraprep
    /\ UNCHANGED <<inputs, freqbins, calls, drawn, npopcomp, closed, looplocals, freqlocals, alldists, genDistHist,
                   estimates_dprime, rep_all_dprime, rep_all_gendist, repgenDistHist>>
    /\ IF ~bound("np")
       THEN /\ Raise("NameError", 221)
            /\ UNCHANGED <<writefile, physDistHist, estimates_r2, rep_all_r2,
                           rep_all_physdist, repphysdisthist>>
       ELSE /\ writefile' = Append(writefile,
                   Entry("ld", ipop, "r2_se",
                         [b \in 1..Len(estimates_r2) |-> npstd(estimates_r2[b])], "\n"))
            /\ physDistHist' = Unbound
            /\ estimates_r2' = Unbound
            /\ rep_all_r2' = Unbound
            /\ rep_all_physdist' = Unbound
            /\ repphysdisthist' = Unbound
            /\ pc' = "l_dp"
            /\ UNCHANGED err

\* lines 227-239: empty bins of the full data get the pseudo-count
DpMean ==
    /\ pc = "l_dp"
    /\ UNCHANGED <<inputs, freqbins, calls, drawn, npopcomp, closed, looplocals, freqlocals, alldists, physDistHist,
                   estimates_r2, rep_all_r2, rep_all_physdist, repphysdisthist,
                   rep_all_dprime, rep_all_gendist, repgenDistHist>>
    /\ IF ~(bound("allRegionDprime") /\ bound("allRegionGendists"))
       THEN Raise("NameError", 227) /\ UNCHANGED <<writefile, genDistHist, estimates_dprime>>
       ELSE LET hist == estimatedprimedecay(flattenList(G.allRegionDprime),
                                            flattenList(G.allRegionGendists), G.ngendisthist)
                compLDhist == hist.sums
                pseudo == PseudoDprimeMean(hist.counts)
            IN /\ genDistHist' = pseudo
               /\ writefile' = Append(writefile,
                      Entry("ld", ipop, "dprime_mean",
                            [x \in 1..Len(compLDhist) |-> Quot(compLDhist[x], pseudo[x])],
                            "\n"))
               /\ IF ~bound("ngendisthist")
                  THEN Raise("NameError", 239) /\ UNCHANGED estimates_dprime
                  ELSE /\ estimates_dprime' = [b \in 1..G.ngendisthist |-> <<>>]
                       /\ pc' = "l_dprep"
                       /\ UNCHANGED err

\* lines 240-257: one bootstrap replicate of the D' decay
DpRep ==
    /\ pc = "l_dprep"
    /\ Len(estimates_dprime[1]) < nbootstraprep
    /\ UNCHANGED <<inputs, freqbins, calls, npopcomp, closed, looplocals, freqlocals, writefile, alldists,
                   physDistHist, estimates_r2, rep_all_r2, rep_all_physdist,
                   repphysdisthist, genDistHist>>
    /\ LET flatdprime == flattenList(G.allRegionDprime)
           flatgendist == flattenList(G.allRegionGendists)
           nsnppairs == Len(flatdprime)
       IN IF nsnppairs > 0 /\ ~bound("random")
          THEN /\ Raise("NameError", 247)
               /\ rep_all_dprime' = <<>>
               /\ rep_all_gendist' = <<>>
               /\ UNCHANGED <<estimates_dprime, repgenDistHist, drawn>>
          ELSE \E index_dprime \in DprimeIndices(nsnppairs) :
                 LET rephist == estimatedprimedecay(Resample(flatdprime, index_dprime),
                                                    ResamplePaired(flatgendist, index_dprime),
                                                    G.ngendisthist)
                     repcompLDhist == rephist.sums
                     pseudo == PseudoDprimeRep(rephist.counts)
                     dprimeestimate == [x \in 1..G.ngendisthist |->
                                          Quot(repcompLDhist[x], pseudo[x])]
                 IN /\ Draw(index_dprime)
                    /\ rep_all_dprime' = Resample(flatdprime, index_dprime)
                    /\ rep_all_gendist' = ResamplePaired(flatgendist, index_dprime)
                    /\ repgenDistHist' = pseudo
                    /\ estimates_dprime' = [b \in 1..G.ngendisthist |->
                                               Append(estimates_dprime[b], dprimeestimate[b])]
                    /\ UNCHANGED <<pc, err>>

\* lines 258-259; the next population follows
DpSE ==
    /\ pc = "l_dprep"
    /\ Len(estimates_dprime[1]) >= nbootstraprep
    /\ UNCHANGED <<inputs, freqbins, calls, drawn, npopcomp, closed, inputfilenames, npops, inputfilename, allpi,
                   freqlocals, alldists, physDistHist, estimates_r2, rep_all_r2,
                   rep_all_physdist, repphysdisthist>>
    /\ IF ~bound("np")
       THEN /\ Raise("NameError", 258)
            /\ UNCHANGED <<writefile, ipop, genDistHist, estimates_dprime, rep_all_dprime,
                           rep_all_gendist, repgenDistHist>>
       ELSE /\ writefile' = Append(writefile,
                   Entry("ld", ipop, "dprime_se",
                         [b \in 1..Len(estimates_dprime) |-> npstd(estimates_dprime[b])],
                         "\n"))
            /\ genDistHist' = Unbound
            /\ estimates_dprime' = Unbound
            /\ rep_all_dprime' = Unbound
            /\ rep_all_gendist' = Unbound
            /\ repgenDistHist' = Unbound
            /\ ipop' = ipop + 1
            /\ pc' = "l_pop"
            /\ UNCHANGED err

(***************************************************************************)
(* execute_bootstrap, lines 264-280: the Fst section and the end.          *)
(***************************************************************************)
\* lines 264-268: npopcomp is an integer, and len(npopcomp) raises TypeError
\* before the first pass of the loop; lines 269-276 are never executed
FstSection ==
    /\ pc = "fst"
    /\ UNCHANGED <<inputs, freqbins, calls, drawn, closed, writefile, npops, ipop, inputfilename, allpi,
                   freqlocals, ldlocals>>
    /\ IF args.in_fst = None
       THEN /\ pc' = After("fst")
            /\ UNCHANGED <<err, inputfilenames, npopcomp>>
       ELSE /\ inputfilenames' = split(args.in_fst, ",")
            /\ npopcomp' = Len(inputfilenames')
            /\ Raise("TypeError", 268)

\* lines 278-280
Close ==
    /\ pc = "close"
    /\ closed' = TRUE
    /\ pc' = "done"
    /\ UNCHANGED <<inputs, freqbins, calls, drawn, err, writefile, looplocals, freqlocals, ldlocals, npopcomp>>

(***************************************************************************)
(* The calls of execute_bootstrap.                                         *)
(***************************************************************************)
\* a comma-delimited list of 1..MaxPops file names, or no such argument
FileLists == {None} \cup
             {join(",", l) : l \in UNION {[1..k -> FileNames] : k \in 1..MaxPops}}

\* a namespace in which a caller has bound every free name
Populated(freqregions, ldregions, nh, np_, ng, i_, ldf) ==
    FreqData(freqregions) @@ LDData(ldregions) @@
    [unbound |-> {}, i |-> i_, ldfilename |-> ldf,
     nhist |-> nh, nphysdisthist |-> np_, ngendisthist |-> ng]

OneRegion == <<[pi |-> 1, len |-> 2, sites |-> <<[der |-> 1, anc |-> 3]>>]>>
OnePair == <<<<[r2 |-> 1, dist |-> 5, dprime |-> 1, gendist |-> 2, cut |-> FALSE]>>>>

\* the namespace of the module run as a script: no free name is bound
\* (lines 4-13 bind prefixstring and the imported names only)
Script == [Populated(OneRegion, OnePair, 1, 1, 1, 0, <<"a">>) EXCEPT !.unbound = FreeNames]

InitLocals ==
    /\ pc = "open"
    /\ err = NoError
    /\ writefile = <<>>
    /\ closed = FALSE
    /\ inputfilenames = Unbound
    /\ npops = Unbound
    /\ ipop = Unbound
    /\ inputfilename = Unbound
    /\ allpi = Unbound
    /\ j = Unbound
    /\ estimates = Unbound
    /\ rep_pis = Unbound
    /\ rep_seqlens = Unbound
    /\ sfs_mean = Unbound
    /\ anc_mean = Unbound
    /\ estimates_sfs = Unbound
    /\ estimates_anc = Unbound
    /\ rep_all_nderiv = Unbound
    /\ rep_all_nanc = Unbound
    /\ alldists = Unbound
    /\ physDistHist = Unbound
    /\ estimates_r2 = Unbound
    /\ rep_all_r2 = Unbound
    /\ rep_all_physdist = Unbound
    /\ repphysdisthist = Unbound
    /\ genDistHist = Unbound
    /\ estimates_dprime = Unbound
    /\ rep_all_dprime = Unbound
    /\ rep_all_gendist = Unbound
    /\ repgenDistHist = Unbound
    /\ npopcomp = Unbound

\* a list that names the same file 1..MaxPops times, or no such argument
SameFileLists == {None} \cup
                 {join(",", [k \in 1..n |-> <<"a">>]) : n \in 1..MaxPops}

\* every free name bound but one
OneMissing == {[Populated(OneRegion, OnePair, 1, 1, 1, 0, <<"a">>) EXCEPT !.unbound = {n}] :
                  n \in FreeNames}

\* calls with any combination of the three families, on the smallest data
InitCalls ==
    /\ args \in [nBootstrapReps : MinReps..MaxReps, in_freqs : FileLists,
                 in_ld : SameFileLists, in_fst : SameFileLists]
    /\ files \in {FileNames, {<<"a">>}, {}}
    /\ G \in {Script} \cup
             {Populated(OneRegion, OnePair, 1, 1, 1, i_, <<"b">>) : i_ \in 0..(MaxPops - 1)}

\* calls for frequency statistics over every small set of regions
InitFreq ==
    /\ args \in [nBootstrapReps : MinReps..MaxReps, in_freqs : {<<"a">>},
                 in_ld : {None}, in_fst : {None}]
    /\ files = FileNames
    /\ G \in {Populated(regions, OnePair, nh, 1, 1, 0, <<"a">>) :
                 regions \in SeqsUpTo(RegionPool, MaxRegions), nh \in 1..MaxBins}

\* calls for LD statistics over every small set of regions
InitLD ==
    /\ args \in [nBootstrapReps : MinReps..MaxReps, in_freqs : {None},
                 in_ld : {<<"a">>}, in_fst : {None}]
    /\ files = FileNames
    /\ G \in {Populated(OneRegion, regions, 1, np_, ng, 0, <<"a">>) :
                 regions \in SeqsUpTo(LDRegionPool, MaxRegions),
                 np_ \in 1..MaxBins, ng \in 1..MaxBins}

\* calls in a namespace that lacks one name
InitOneMissing ==
    /\ args \in [nBootstrapReps : {1}, in_freqs : {None, <<"a">>},
                 in_ld : {None, <<"a">>}, in_fst : {None}]
    /\ files = FileNames
    /\ G \in OneMissing

\* lines 36-38 and 383-384: the options of the command line, in the order
\* they were given; parse_args keeps their values and not their order
Options == {"--in_freqs", "--in_ld", "--in_fst"}
Given(a) == {o \in Options : \/ o = "--in_freqs" /\ a.in_freqs # None
                             \/ o = "--in_ld" /\ a.in_ld # None
                             \/ o = "--in_fst" /\ a.in_fst # None}
CommandLines(a) ==
    {s \in [1..Cardinality(Given(a)) -> Given(a)] :
        \A x, y \in 1..Cardinality(Given(a)) : x # y => s[x] # s[y]}

\* nothing is left behind by an earlier call
NoCall == [report |-> <<>>, err |-> NoError, closed |-> FALSE, drawn |-> <<>>]

Init ==
    /\ InitCalls \/ InitFreq \/ InitLD \/ InitOneMissing
    /\ argv \in CommandLines(args)
    /\ InitLocals
    /\ run = 0
    /\ first = NoCall
    /\ drawn = <<>>
    /\ run_traj = NotCalled
    /\ write_bin_paramfile = NotCalled
    /\ check_bin_filled = NotCalled

Next ==
    \/ Open
    \/ FreqSection
    \/ FreqPop
    \/ PiMean
    \/ PiRep
    \/ PiSE
    \/ SfsMean
    \/ SfsRep
    \/ SfsSE
    \/ LDSection
    \/ LDPop
    \/ R2Mean
    \/ R2Rep
    \/ R2SE
    \/ DpMean
    \/ DpRep
    \/ DpSE
    \/ FstSection
    \/ Close

Spec == Init /\ [][Next]_vars

(***************************************************************************)
(* Two calls of execute_bootstrap on the same arguments, files and         *)
(* namespace, the second with the random generator re-seeded as for the    *)
(* first.                                                                  *)
(***************************************************************************)
TwoRegions == <<[pi |-> 1, len |-> 2, sites |-> <<[der |-> 1, anc |-> 3]>>],
                [pi |-> 2, len |-> 2, sites |-> <<[der |-> 3, anc |-> 1]>>]>>
TwoPairs == <<<<[r2 |-> 1, dist |-> 5, dprime |-> 1, gendist |-> 2, cut |-> FALSE]>>,
              <<[r2 |-> 2, dist |-> 15, dprime |-> 0, gendist |-> 12, cut |-> FALSE]>>>>

InitTwoFreq ==
    /\ args \in [nBootstrapReps : 1..MaxReps, in_freqs : {<<"a">>},
                 in_ld : {None}, in_fst : {None}]
    /\ files = FileNames
    /\ G \in {Populated(TwoRegions, OnePair, nh, 1, 1, 0, <<"a">>) : nh \in 1..MaxBins}

InitTwoLD ==
    /\ args \in [nBootstrapReps : 1..MaxReps, in_freqs : {None},
                 in_ld : {<<"a">>}, in_fst : {None}]
    /\ files = FileNames
    /\ G \in {Populated(OneRegion, TwoPairs, 1, np_, ng, 0, <<"a">>) :
                 np_ \in 1..MaxBins, ng \in 1..MaxBins}

\* calls with any combination of the three families, on the smallest data,
\* in the namespace of the script and in a populated one
InitTwoCalls ==
    /\ args \in [nBootstrapReps : MinReps..MaxReps, in_freqs : SameFileLists,
                 in_ld : SameFileLists, in_fst : {None, <<"a">>}]
    /\ files \in {FileNames, {}}
    /\ G \in {Script, Populated(OneRegion, OnePair, 1, 1, 1, 0, <<"a">>)}

InitTwoRuns ==
    /\ InitTwoCalls \/ InitTwoFreq \/ InitTwoLD
    /\ argv \in CommandLines(args)
    /\ InitLocals
    /\ run = 1
    /\ first = NoCall
    /\ drawn = <<>>
    /\ run_traj = NotCalled
    /\ write_bin_paramfile = NotCalled
    /\ check_bin_filled = NotCalled

\* the first call has returned or raised; the second call starts with fresh
\* locals (line 102) and finds the report of the first on disk
SecondRun ==
    /\ run = 1
    /\ pc \in {"done", "raised"}
    /\ first' = [report |-> writefile, err |-> err, closed |-> closed, drawn |-> drawn]
    /\ run' = 2
    /\ drawn' = <<>>
    /\ pc' = "open"
    /\ err' = NoError
    /\ closed' = FALSE
    /\ inputfilenames' = Unbound
    /\ npops' = Unbound
    /\ ipop' = Unbound
    /\ inputfilename' = Unbound
    /\ allpi' = Unbound
    /\ j' = Unbound
    /\ estimates' = Unbound
    /\ rep_pis' = Unbound
    /\ rep_seqlens' = Unbound
    /\ sfs_mean' = Unbound
    /\ anc_mean' = Unbound
    /\ estimates_sfs' = Unbound
    /\ estimates_anc' = Unbound
    /\ rep_all_nderiv' = Unbound
    /\ rep_all_nanc' = Unbound
    /\ alldists' = Unbound
    /\ physDistHist' = Unbound
    /\ estimates_r2' = Unbound
    /\ rep_all_r2' = Unbound
    /\ rep_all_physdist' = Unbound
    /\ repphysdisthist' = Unbound
    /\ genDistHist' = Unbound
    /\ estimates_dprime' = Unbound
    /\ rep_all_dprime' = Unbound
    /\ rep_all_gendist' = Unbound
    /\ repgenDistHist' = Unbound
    /\ npopcomp' = Unbound
    /\ UNCHANGED <<inputs, freqbins, writefile>>

NextTwoRuns == Next \/ SecondRun

SpecTwoRuns == InitTwoRuns /\ [][NextTwoRuns]_vars

(***************************************************************************)
(* src/cms/dists/freqbins_func.py: run_traj, lines 27-43.                  *)
(***************************************************************************)
\* a retry loop that gives up after maxAttempts invocations
LoopCondition_Bounded(itWorked, nAttempts, maxAttempts) ==
    itWorked = FALSE /\ nAttempts < maxAttempts

\* line 33: while itWorked == False
LoopCondition(itWorked, nAttempts, maxAttempts) == itWorked = FALSE

\* lines 28-31; invocations counts the calls of subprocess.check_output,
\* last is the outcome of the latest one, isfile is os.path.isfile(output)
TrajCalled(maxAttempts, isfile) ==
    [pc |-> "while", maxAttempts |-> maxAttempts, itWorked |-> FALSE,
     nAttempts |-> 0, invocations |-> 0, last |-> "none", isfile |-> isfile,
     printed |-> 0]

\* line 33
TrajWhile ==
    /\ run_traj.pc = "while"
    /\ run_traj' = [run_traj EXCEPT !.pc =
           IF LoopCondition(run_traj.itWorked, run_traj.nAttempts, run_traj.maxAttempts)
           THEN "try" ELSE "print"]
    /\ UNCHANGED <<inputs, calls, drawn, pc, err, writefile, closed, looplocals,
                   freqlocals, ldlocals, npopcomp, write_bin_paramfile,
                   check_bin_filled>>

\* lines 34-39: one invocation of the simulator; check_output raises when
\* the simulator exits with an error, and the bare except goes on to the
\* next pass; a simulator that succeeds may or may not have written output
TrajTry ==
    /\ run_traj.pc = "try"
    /\ run_traj.invocations < MaxInvocations
    /\ \/ run_traj' = [run_traj EXCEPT !.nAttempts = @ + 1, !.invocations = @ + 1,
                                         !.last = "failed", !.pc = "while"]
       \/ \E made \in BOOLEAN :
             run_traj' = [run_traj EXCEPT !.nAttempts = @ + 1, !.invocations = @ + 1,
                                          !.last = "ok", !.itWorked = TRUE,
                                          !.isfile = @ \/ made, !.pc = "while"]
    /\ UNCHANGED <<inputs, calls, drawn, pc, err, writefile, closed, looplocals,
                   freqlocals, ldlocals, npopcomp, write_bin_paramfile,
                   check_bin_filled>>

\* lines 41-43: the count is printed; the assertion raises AssertionError
\* when the output file does not exist
TrajReturn ==
    /\ run_traj.pc = "print"
    /\ run_traj' = [run_traj EXCEPT !.printed = run_traj.nAttempts,
                                    !.pc = IF run_traj.isfile THEN "returned" ELSE "raised"]
    /\ UNCHANGED <<inputs, calls, drawn, pc, err, writefile, closed, looplocals,
                   freqlocals, ldlocals, npopcomp, write_bin_paramfile,
                   check_bin_filled>>

(***************************************************************************)
(* write_bin_paramfile, lines 6-26.  A line is a sequence of pieces: words *)
(* and single whitespace characters; it ends with a newline.               *)
(***************************************************************************)
Words == {"sweep_mult", "0"}
Whitespace == {" ", "\n"}
Pieces == Words \cup {" "}

\* "sweep_mult" in line
HasSweep(line) == \E k \in 1..Len(line) : line[k] = "sweep_mult"

\* line.split(): the maximal runs of pieces that are not whitespace
RECURSIVE splitWhitespace(_)
splitWhitespace(line) ==
    IF line = <<>> THEN <<>>
    ELSE IF Head(line) \in Whitespace THEN splitWhitespace(Tail(line))
    ELSE LET n == CHOOSE x \in 1..Len(line) :
                     /\ \A y \in 1..x : line[y] \notin Whitespace
                     /\ x = Len(line) \/ line[x + 1] \in Whitespace
         IN <<SubSeq(line, 1, n)>> \o splitWhitespace(SubSeq(line, n + 1, Len(line)))

\* lines 16-20: writestring
Rewritten(line, bounds) ==
    LET entries == splitWhitespace(line)
    IN flattenList([ientry \in 1..(Len(entries) - 1) |-> entries[ientry] \o <<" ">>])
       \o <<bounds[1], "-", bounds[2], "\n">>

\* lines 8-10
ParamCalled(lines, bounds) ==
    [pc |-> "for", readfile |-> lines, bounds |-> bounds, nread |-> 0,
     writefile |-> <<>>, foundSweep |-> FALSE, printed |-> <<>>]

\* lines 11-21: one pass of the loop over the lines of the file
ParamLine ==
    /\ write_bin_paramfile.pc = "for"
    /\ write_bin_paramfile.nread < Len(write_bin_paramfile.readfile)
    /\ LET line == write_bin_paramfile.readfile[write_bin_paramfile.nread + 1]
       IN write_bin_paramfile' =
             IF ~HasSweep(line)
             THEN [write_bin_paramfile EXCEPT !.writefile = Append(@, line),
                                              !.foundSweep = TRUE,
                                              !.nread = @ + 1]
             ELSE [write_bin_paramfile EXCEPT
                      !.writefile = Append(@, Rewritten(line, write_bin_paramfile.bounds)),
                      !.nread = @ + 1]
    /\ UNCHANGED <<inputs, calls, drawn, pc, err, writefile, closed, looplocals,
                   freqlocals, ldlocals, npopcomp, run_traj, check_bin_filled>>

\* lines 22-26
ParamReturn ==
    /\ write_bin_paramfile.pc = "for"
    /\ write_bin_paramfile.nread = Len(write_bin_paramfile.readfile)
    /\ write_bin_paramfile' =
          [write_bin_paramfile EXCEPT
              !.printed = IF write_bin_paramfile.foundSweep = FALSE
                          THEN <<"ERROR: did not find sweep parameters in inputfile.">>
                          ELSE <<>>,
              !.pc = "returned"]
    /\ UNCHANGED <<inputs, calls, drawn, pc, err, writefile, closed, looplocals,
                   freqlocals, ldlocals, npopcomp, run_traj, check_bin_filled>>

\* the lines of a parameter file
ParamLines == {body \o <<"\n">> : body \in SeqsUpTo(Pieces, MaxLineLen)}

(***************************************************************************)
(* check_bin_filled, lines 61-68, and check_file_len, lines 78-88.  A      *)
(* directory maps every file name to what it holds under that name:        *)
(* nothing, a subdirectory, or a file of so many lines.                    *)
(***************************************************************************)
FileNumbers == 1..MaxFiles
DirEntries == {[kind |-> "none", lines |-> 0], [kind |-> "dir", lines |-> 0]} \cup
              {[kind |-> "file", lines |-> n] : n \in 0..MaxFileLines}
Directories == [FileNumbers -> DirEntries]

\* os.listdir: the names of all entries, files and subdirectories
listdir(directory) == {x \in FileNumbers : directory[x].kind # "none"}

\* lines 78-88; the name is resolved in the working directory; a file of
\* positive size has at least one line
check_file_len(filename) ==
    LET entry == check_bin_filled.cwd[filename]
    IN IF entry.kind = "file" /\ entry.lines > 0 THEN entry.lines ELSE 0

\* the call check_bin_filled(directory, numsims) made in the working
\* directory cwd
BinCalled(directory, cwd, numsims) ==
    [pc |-> "listdir", directory |-> directory, cwd |-> cwd, numsims |-> numsims,
     filenames |-> {}, nonempty |-> {}, result |-> FALSE]

\* lines 63-64: check_file_len gets the bare name of the entry
BinList ==
    /\ check_bin_filled.pc = "listdir"
    /\ LET filenames == listdir(check_bin_filled.directory)
       IN check_bin_filled' =
             [check_bin_filled EXCEPT
                 !.filenames = filenames,
                 !.nonempty = {x \in filenames : check_file_len(x) # 0},
                 !.pc = "if"]
    /\ UNCHANGED <<inputs, calls, drawn, pc, err, writefile, closed, looplocals,
                   freqlocals, ldlocals, npopcomp, run_traj, write_bin_paramfile>>

\* lines 65-68: the test is on len(filenames)
BinReturn ==
    /\ check_bin_filled.pc = "if"
    /\ check_bin_filled' =
          [check_bin_filled EXCEPT
              !.result = IF Cardinality(check_bin_filled.filenames) < check_bin_filled.numsims
                         THEN FALSE ELSE TRUE,
              !.pc = "returned"]
    /\ UNCHANGED <<inputs, calls, drawn, pc, err, writefile, closed, looplocals,
                   freqlocals, ldlocals, npopcomp, run_traj, write_bin_paramfile>>

\* execute_bootstrap is not called
BootstrapIdle ==
    /\ args = [nBootstrapReps |-> 1, in_freqs |-> None, in_ld |-> None, in_fst |-> None]
    /\ argv = <<>>
    /\ files = {}
    /\ G = Script
    /\ InitLocals
    /\ run = 0
    /\ first = NoCall
    /\ drawn = <<>>

InitFreqbins ==
    /\ BootstrapIdle
    /\ \/ /\ run_traj \in {TrajCalled(m, f) : m \in 1..MaxAttemptsArg, f \in BOOLEAN}
          /\ write_bin_paramfile = NotCalled
          /\ check_bin_filled = NotCalled
       \/ /\ run_traj = NotCalled
          /\ write_bin_paramfile \in
                {ParamCalled(lines, <<"lo", "hi">>) : lines \in SeqsUpTo(ParamLines, MaxLines)}
          /\ check_bin_filled = NotCalled
       \/ /\ run_traj = NotCalled
          /\ write_bin_paramfile = NotCalled
          /\ check_bin_filled \in
                {BinCalled(directory, cwd, numsims) :
                    directory \in Directories, cwd \in Directories,
                    numsims \in 0..MaxNumsims}

NextFreqbins ==
    \/ TrajWhile
    \/ TrajTry
    \/ TrajReturn
    \/ ParamLine
    \/ ParamReturn
    \/ BinList
    \/ BinReturn

\* run_traj, write_bin_paramfile and check_bin_filled are sequential code:
\* a statement that can be executed is executed
SpecFreqbins == InitFreqbins /\ [][NextFreqbins]_vars /\ WF_vars(NextFreqbins)

(***************************************************************************)
(* Properties.                                                             *)
(***************************************************************************)
\* C1: after every completed bootstrap replicate of pi, of the SFS, of the
\* r2 decay and of the D' decay, the replicate sample holds exactly as many
\* units as the population it was drawn from (regions, sites, site pairs),
\* the same number in every replicate.
C1_ReplicateSizeIsPopulationSize ==
    /\ (pc = "f_pirep" /\ j > 0) =>
          /\ Len(rep_pis) = Len(G.allRegionPI)
          /\ Len(rep_seqlens) = Len(G.allseqlens)
    /\ (pc = "f_sfsrep" /\ j > 0) =>
          /\ Len(rep_all_nderiv) = Len(flattenList(G.allRegionDER))
          /\ Len(rep_all_nanc) = Len(flattenList(G.allRegionANC))
    /\ (pc = "l_r2rep" /\ Len(estimates_r2[1]) > 0) =>
          /\ Len(rep_all_r2) = Len(flattenList(G.allRegionr2))
          /\ Len(rep_all_physdist) = Len(flattenList(G.allRegionDists))
    /\ (pc = "l_dprep" /\ Len(estimates_dprime[1]) > 0) =>
          /\ Len(rep_all_dprime) = Len(flattenList(G.allRegionDprime))
          /\ Len(rep_all_gendist) = Len(flattenList(G.allRegionGendists))

\* two replicates of pi over two regions have been drawn
C1_Witness ==
    /\ pc = "f_pirep"
    /\ j = 2
    /\ Len(G.allRegionPI) = 2
    /\ Len(rep_pis) = 2
    /\ rep_pis[1] # rep_pis[2]

FreqOrder == <<"index", "pi_mean", "pi_se", "sfs_mean", "sfs_se", "anc_mean", "anc_se">>
LDOrder == <<"index", "r2_mean", "r2_se", "dprime_mean", "dprime_se">>
OrderOf(fam) == IF fam = "freq" THEN FreqOrder ELSE LDOrder
Place(kind, order) == CHOOSE x \in 1..Len(order) : order[x] = kind

\* C2: every entry of the report follows the entry that precedes it in the
\* fixed order of its block (index, pi mean, pi SE, SFS mean, SFS SE,
\* ancestral mean, ancestral SE; index, r2 mean, r2 SE, D' mean, D' SE), a
\* block starts only after the block before it is complete, and only the pi
\* mean ends with a tab, so that pi mean and pi SE share a line.
C2_BlockLineOrder ==
    \A k \in 1..Len(writefile) :
        LET e == writefile[k]
            order == OrderOf(e.fam)
        IN /\ e.fam \in {"freq", "ld"}
           /\ \E x \in 1..Len(order) : order[x] = e.kind
           /\ e.end = (IF e.kind = "pi_mean" THEN "\t" ELSE "\n")
           /\ IF e.kind = "index"
              THEN k > 1 => LET f == writefile[k - 1]
                            IN f.kind = OrderOf(f.fam)[Len(OrderOf(f.fam))]
              ELSE /\ k > 1
                   /\ writefile[k - 1].fam = e.fam
                   /\ writefile[k - 1].pop = e.pop
                   /\ writefile[k - 1].kind = order[Place(e.kind, order) - 1]

\* a complete frequency block and a complete LD block have been written
C2_Witness ==
    /\ \E k \in 1..Len(writefile) : writefile[k].kind = "anc_se"
    /\ \E k \in 1..Len(writefile) : writefile[k].kind = "dprime_se"

OptionOf(fam) == IF fam = "freq" THEN "--in_freqs"
                 ELSE IF fam = "ld" THEN "--in_ld" ELSE "--in_fst"
ArgvPlace(o) == CHOOSE x \in 1..Len(argv) : argv[x] = o
ProgramPlace(fam) == IF fam = "freq" THEN 1 ELSE IF fam = "ld" THEN 2 ELSE 3

\* C3 as stated: the sections of the report come in the order in which
\* their options were given on the command line.
C3_SectionsInRequestOrder ==
    \A a, b \in 1..Len(writefile) :
        a < b => ArgvPlace(OptionOf(writefile[a].fam)) <= ArgvPlace(OptionOf(writefile[b].fam))

\* C3: the entries of the frequency section precede the entries of the LD
\* section, whatever the order of the options on the command line.
C3_SectionsInProgramOrder ==
    \A a, b \in 1..Len(writefile) :
        a < b => ProgramPlace(writefile[a].fam) <= ProgramPlace(writefile[b].fam)

\* --in_ld was given before --in_freqs and both sections have been written
C3_Witness ==
    /\ "--in_ld" \in Given(args) /\ "--in_freqs" \in Given(args)
    /\ ArgvPlace("--in_ld") < ArgvPlace("--in_freqs")
    /\ \E k \in 1..Len(writefile) : writefile[k].fam = "freq"
    /\ \E k \in 1..Len(writefile) : writefile[k].fam = "ld"

\* C4 as stated: while the block of index ipop is computed, the file that
\* was read for it is the ipop-th file of the list (in a call with a
\* positive replicate count and all its files present).
C4_BlockReadsItsOwnFile ==
    (nbootstraprep >= 1 /\ files = FileNames) =>
        /\ pc \in {"f_pi", "f_pirep", "f_sfs", "f_sfsrep"} =>
              inputfilename = inputfilenames[ipop + 1]
        /\ pc \in {"l_r2", "l_r2rep", "l_dp", "l_dprep"} =>
              /\ inputfilename = inputfilenames[ipop + 1]
              /\ alldists = inputfilenames[ipop + 1]

FstLines == Cardinality({k \in 1..Len(writefile) : writefile[k].fam = "fst"})

\* C5 as stated: a call with Fst input only (a positive replicate count, all
\* files present) ends with the report closed and one Fst line per file of
\* the list.
C5_OneFstLinePerPair ==
    (/\ nbootstraprep >= 1
     /\ files = FileNames
     /\ args.in_fst # None
     /\ args.in_freqs = None
     /\ args.in_ld = None
     /\ pc \in {"done", "raised"}) =>
        /\ pc = "done"
        /\ closed
        /\ FstLines = Len(split(args.in_fst, ","))

\* C6 as stated: the report holds no entry, index line included, for a
\* population whose input file does not exist (in a call with a positive
\* replicate count).
C6_NothingWrittenForMissingFile ==
    nbootstraprep >= 1 =>
    \A k \in 1..Len(writefile) :
        LET e == writefile[k]
        IN /\ e.fam = "freq" => checkFileExists(split(args.in_freqs, ",")[e.pop + 1])
           /\ e.fam = "ld" => checkFileExists(split(args.in_ld, ",")[e.pop + 1])

\* C7 as stated: with a replicate count <= 0 nothing is written to the
\* report and no statistic is computed.
C7_NonPositiveCountRejected ==
    nbootstraprep <= 0 =>
        /\ writefile = <<>>
        /\ pc \notin {"f_pi", "f_pirep", "f_sfs", "f_sfsrep",
                      "l_r2", "l_r2rep", "l_dp", "l_dprep"}

EmptyFor(kind) ==
    IF kind \in {"pi_mean", "pi_se"} THEN G.allRegionPI = <<>>
    ELSE IF kind \in {"sfs_mean", "sfs_se", "anc_mean", "anc_se"}
    THEN flattenList(G.allRegionDER) = <<>>
    ELSE IF kind \in {"r2_mean", "r2_se"} THEN flattenList(G.allRegionr2) = <<>>
    ELSE IF kind \in {"dprime_mean", "dprime_se"} THEN flattenList(G.allRegionDprime) = <<>>
    ELSE FALSE

\* C8 as stated: the report holds no mean and no standard error of a
\* statistic whose population (regions, sites, site pairs) is empty (in a
\* call with a positive replicate count).
C8_NoEstimateForEmptyPopulation ==
    nbootstraprep >= 1 =>
        \A k \in 1..Len(writefile) : ~EmptyFor(writefile[k].kind)

\* C9 as stated: over a population of at least one site pair, neither the r2
\* mean (line 195) nor an r2 replicate (line 217) divides by zero.
C9_R2NeverDividesByZero ==
    (nbootstraprep >= 1 /\ flattenList(G.allRegionr2) # <<>>) =>
        (err.type = "ZeroDivisionError" => err.line \notin {195, 217})

RawDprime == estimatedprimedecay(flattenList(G.allRegionDprime),
                                 flattenList(G.allRegionGendists), G.ngendisthist)
RawDprimeRep == estimatedprimedecay(rep_all_dprime, rep_all_gendist, G.ngendisthist)

\* C10: for the D' decay, the denominator of a genetic-distance bin is 1 when
\* the bin holds no pair and the number of its pairs otherwise, in the mean
\* over the full data and in every replicate; the value of an empty bin is 0.
C10_DprimePseudoCount ==
    pc = "l_dprep" =>
        /\ \A b \in 1..G.ngendisthist :
              /\ genDistHist[b] = (IF RawDprime.counts[b] = 0 THEN 1 ELSE RawDprime.counts[b])
              /\ writefile[Len(writefile)].val[b] = Quot(RawDprime.sums[b], genDistHist[b])
              /\ RawDprime.counts[b] = 0 => writefile[Len(writefile)].val[b] = <<0, 1>>
        /\ Len(estimates_dprime[1]) > 0 =>
              \A b \in 1..G.ngendisthist :
                 LET last == estimates_dprime[b][Len(estimates_dprime[b])]
                 IN /\ repgenDistHist[b] =
                          (IF RawDprimeRep.counts[b] = 0 THEN 1 ELSE RawDprimeRep.counts[b])
                    /\ last = Quot(RawDprimeRep.sums[b], repgenDistHist[b])
                    /\ RawDprimeRep.counts[b] = 0 => last = <<0, 1>>

\* the full data leave a genetic-distance bin empty and put two pairs into
\* another, and a replicate has been drawn that leaves a bin empty
C10_Witness ==
    /\ pc = "l_dprep"
    /\ Len(estimates_dprime[1]) > 0
    /\ \E b \in 1..G.ngendisthist : RawDprime.counts[b] = 0
    /\ \E b \in 1..G.ngendisthist : RawDprime.counts[b] = 2
    /\ \E b \in 1..G.ngendisthist : RawDprimeRep.counts[b] = 0

\* C11 as stated: over a non-empty set of sites, neither the ancestral
\* proportion of the full data (line 147) nor that of a replicate (line 166)
\* raises on a frequency bin without sites.
C11_AncEmptyBinNeverRaises ==
    (nbootstraprep >= 1 /\ flattenList(G.allRegionDER) # <<>>) =>
        (err.type = "ZeroDivisionError" => err.line \notin {147, 166})

\* the statements of the four replicate loops
LoopLines == (130..137) \cup (153..168) \cup (202..219) \cup (240..257)

\* C12 as stated: with R >= 1 and every free name bound, no replicate loop is
\* left by an exception, the lists of all bins of a statistic have the same
\* length at every step, that length is the number of iterations made, and
\* it is R when the loop is left.
C12_LoopRunsRTimes ==
    (nbootstraprep >= 1 /\ G.unbound = {}) =>
        /\ err.line \notin LoopLines
        /\ pc = "f_pirep" => Len(estimates) = j /\ j <= nbootstraprep
        /\ pc = "f_sfsrep" =>
              /\ j <= nbootstraprep
              /\ \A b \in 1..G.nhist : Len(estimates_sfs[b]) = j
              /\ \A b \in 1..G.nhist : Len(estimates_anc[b]) = j
        /\ pc = "l_r2rep" =>
              \A b \in 1..G.nphysdisthist :
                 /\ Len(estimates_r2[b]) = Len(estimates_r2[1])
                 /\ Len(estimates_r2[b]) <= nbootstraprep
        /\ pc = "l_dprep" =>
              \A b \in 1..G.ngendisthist :
                 /\ Len(estimates_dprime[b]) = Len(estimates_dprime[1])
                 /\ Len(estimates_dprime[b]) <= nbootstraprep

SEKinds == {"pi_se", "sfs_se", "anc_se", "r2_se", "dprime_se"}

\* C13: with one replicate, every standard error in the report is zero: the
\* scalar of pi, and every bin of the vectors of the SFS, of the ancestral
\* proportion, of the r2 decay and of the D' decay.
C13_SingleReplicateZeroSE ==
    nbootstraprep = 1 =>
        \A k \in 1..Len(writefile) :
            LET e == writefile[k]
            IN IF e.kind = "pi_se" THEN e.val = "zero"
               ELSE IF e.kind \in SEKinds
               THEN \A b \in 1..Len(e.val) : e.val[b] = "zero"
               ELSE TRUE

\* one replicate was drawn and the standard errors of two frequency bins
\* have been written after the standard error of pi
C13_Witness ==
    /\ nbootstraprep = 1
    /\ \E k \in 1..Len(writefile) : writefile[k].kind = "pi_se"
    /\ \E k \in 1..Len(writefile) :
          writefile[k].kind = "anc_se" /\ Len(writefile[k].val) = 2

FullFreq == estimateFreqSpectrum(flattenList(G.allRegionDER),
                                 flattenList(G.allRegionANC), G.nhist)
FullR2 == estimater2decay(flattenList(G.allRegionr2),
                          flattenList(G.allRegionDists), G.nphysdisthist)

\* the point estimate of a statistic on the full data of the namespace
PointEstimate(kind) ==
    IF kind = "pi_mean" THEN estimatePi(G.allRegionPI, G.allseqlens)
    ELSE IF kind = "sfs_mean"
    THEN [b \in 1..G.nhist |-> Quot(FullFreq.mafhist[b], sum(FullFreq.mafhist))]
    ELSE IF kind = "anc_mean"
    THEN [b \in 1..G.nhist |-> Quot(FullFreq.anchist[b], FullFreq.mafhist[b])]
    ELSE IF kind = "r2_mean"
    THEN [b \in 1..G.nphysdisthist |-> Quot(FullR2.sums[b], FullR2.counts[b])]
    ELSE [b \in 1..G.ngendisthist |->
             Quot(RawDprime.sums[b],
                  IF RawDprime.counts[b] = 0 THEN 1 ELSE RawDprime.counts[b])]

MeanKinds == {"pi_mean", "sfs_mean", "anc_mean", "r2_mean", "dprime_mean"}

MeansArePointEstimates ==
    /\ \A k \in 1..Len(writefile) :
          writefile[k].kind \in MeanKinds =>
              writefile[k].val = PointEstimate(writefile[k].kind)
    /\ pc = "f_sfsrep" => /\ sfs_mean = PointEstimate("sfs_mean")
                         /\ anc_mean = PointEstimate("anc_mean")

\* C14: every mean in the report is the point estimate on the full data, the
\* SFS and ancestral means that wait for their replicates keep that value
\* during the loop, and no step changes the measurement sequences of the
\* namespace.
C14_MeanIsPointEstimate ==
    [](MeansArePointEstimates) /\ [][G' = G]_vars

\* two replicates with different ancestral proportions were drawn between
\* computing and writing the ancestral mean
C14_Witness ==
    /\ nbootstraprep = 2
    /\ \E k \in 1..Len(writefile) : writefile[k].kind = "anc_mean"
    /\ \E k \in 1..Len(writefile) :
          /\ writefile[k].kind = "anc_se"
          /\ \E b \in 1..Len(writefile[k].val) : writefile[k].val[b] = "pos"

\* C15 as stated: while the block of population ipop is computed (every free
\* name bound, a positive replicate count), the measurement data read from a
\* file and held by the function are those of the file of population ipop,
\* never those of another population.
C15_BlockHoldsOwnPopulationData ==
    (/\ nbootstraprep >= 1
     /\ G.unbound = {}
     /\ pc \in {"f_pi", "f_pirep", "f_sfs", "f_sfsrep"}
     /\ checkFileExists(inputfilename)) =>
        allpi = inputfilenames[ipop + 1]

InLoop ==
    \/ pc = "f_pirep" /\ j < nbootstraprep /\ G.totalregions > 0
    \/ pc = "f_sfsrep" /\ j < nbootstraprep /\ G.nsnps > 0
    \/ pc = "l_r2rep" /\ Len(estimates_r2[1]) < nbootstraprep
                      /\ flattenList(G.allRegionr2) # <<>>
    \/ pc = "l_dprep" /\ Len(estimates_dprime[1]) < nbootstraprep
                      /\ flattenList(G.allRegionDprime) # <<>>

\* C16: in the second of two calls on the same arguments, files and
\* namespace that draws the index vectors the first call drew, every entry
\* written is the entry the first call wrote at that place, a replicate is
\* due only where the first call drew one, and the call ends as the first
\* did: the same report, the same exception or return, the same draws.
C16_SameDrawsSameReport ==
    (run = 2 /\ pc # "open") =>
        /\ Len(writefile) <= Len(first.report)
        /\ \A k \in 1..Len(writefile) : writefile[k] = first.report[k]
        /\ (InLoop /\ bound("random")) => Len(drawn) < Len(first.drawn)
        /\ pc \in {"done", "raised"} =>
              /\ writefile = first.report
              /\ err = first.err
              /\ closed = first.closed
              /\ drawn = first.drawn

\* the second call has ended after replicates that drew different index
\* vectors, with a report of a whole frequency block
C16_Witness ==
    /\ run = 2
    /\ pc = "done"
    /\ Len(drawn) = 4
    /\ drawn[1] # drawn[2]
    /\ drawn[3] # drawn[4]
    /\ \E k \in 1..Len(writefile) : writefile[k].kind = "anc_se"

RatAdd(a, b) == <<a[1] * b[2] + b[1] * a[2], a[2] * b[2]>>
RECURSIVE RatSum(_)
RatSum(qs) == IF qs = <<>> THEN <<0, 1>> ELSE RatAdd(Head(qs), RatSum(Tail(qs)))
SumsToOne(qs) == RatSum(qs)[1] = RatSum(qs)[2]

SfsMeanSet == pc = "f_sfsrep" \/ (pc = "raised" /\ err.line \in {147, 166})
SfsRepsSet == pc = "f_sfsrep" \/ (pc = "raised" /\ err.line = 166)

\* C17: the SFS proportions of the full data sum to 1 over the bins once
\* they are computed (line 146) and where they are written (line 172), and
\* so do the proportions of every replicate (line 163) appended to the
\* lists of the bins.
C17_SfsSumsToOne ==
    /\ SfsMeanSet => SumsToOne(sfs_mean)
    /\ SfsRepsSet =>
          \A r \in 1..Len(estimates_sfs[1]) :
              SumsToOne([b \in 1..G.nhist |-> estimates_sfs[b][r]])
    /\ \A k \in 1..Len(writefile) :
          writefile[k].kind = "sfs_mean" => SumsToOne(writefile[k].val)

\* over two bins, the proportions of the full data and of two replicates,
\* each with sites in both bins, have been computed
C17_Witness ==
    /\ pc = "f_sfsrep"
    /\ G.nhist = 2
    /\ sfs_mean = <<<<1, 2>>, <<1, 2>>>>
    /\ Len(estimates_sfs[1]) = 2
    /\ \E r \in 1..2 : estimates_sfs[1][r] = <<1, 2>>

\* every element of the replicate lists as, bs is the pair of values that
\* the source lists xs, ys hold at one index of 0..Len(xs)-1
Paired(as, bs, xs, ys) ==
    /\ Len(as) = Len(bs)
    /\ \A k \in 1..Len(as) :
          \E index \in 0..(Len(xs) - 1) :
              as[k] = xs[index + 1] /\ bs[k] = ys[index + 1]

\* C18: after every completed replicate, each resampled unit holds the two
\* values of one unit of the population, at an index of 0..n-1: pi numerator
\* and region length, derived and ancestral count, r2 and physical distance,
\* D' and genetic distance.
C18_ResampledValuesStayPaired ==
    /\ (pc = "f_pirep" /\ j > 0) =>
          Paired(rep_pis, rep_seqlens, G.allRegionPI, G.allseqlens)
    /\ (pc = "f_sfsrep" /\ j > 0) =>
          Paired(rep_all_nderiv, rep_all_nanc,
                 flattenList(G.allRegionDER), flattenList(G.allRegionANC))
    /\ (pc = "l_r2rep" /\ Len(estimates_r2[1]) > 0) =>
          Paired(rep_all_r2, rep_all_physdist,
                 flattenList(G.allRegionr2), flattenList(G.allRegionDists))
    /\ (pc = "l_dprep" /\ Len(estimates_dprime[1]) > 0) =>
          Paired(rep_all_dprime, rep_all_gendist,
                 flattenList(G.allRegionDprime), flattenList(G.allRegionGendists))

\* a replicate over two regions of different pi and different length has
\* drawn the second region first and the first region second
C18_Witness ==
    /\ pc = "f_pirep"
    /\ j > 0
    /\ Len(G.allRegionPI) = 2
    /\ G.allRegionPI[1] # G.allRegionPI[2]
    /\ G.allseqlens[1] # G.allseqlens[2]
    /\ rep_pis = <<G.allRegionPI[2], G.allRegionPI[1]>>
    /\ rep_seqlens = <<G.allseqlens[2], G.allseqlens[1]>>

TrajLeft == run_traj.pc \in {"print", "returned", "raised"}
TrajEnded == run_traj.pc \in {"returned", "raised"}

TrajCounts ==
    run_traj.pc # "notcalled" =>
        /\ run_traj.nAttempts = run_traj.invocations
        /\ TrajLeft => /\ run_traj.itWorked
                       /\ run_traj.last = "ok"
                       /\ run_traj.invocations >= 1
        /\ TrajEnded => run_traj.printed = run_traj.invocations

\* C19: the attempt counter is the number of invocations; the loop is left
\* only after an invocation that succeeded, whatever maxAttempts is, and the
\* count that is printed is the number of invocations, at least 1; at the
\* loop test after a failure the next step is another invocation; once an
\* invocation has succeeded run_traj ends.
C19_RunTrajRetriesUntilSuccess ==
    /\ [](TrajCounts)
    /\ [][(run_traj.pc = "while" /\ ~run_traj.itWorked) => run_traj'.pc = "try"]_vars
    /\ ((run_traj.pc # "notcalled" /\ run_traj.last = "ok") ~> TrajEnded)

\* run_traj has returned after more invocations than maxAttempts
C19_Witness ==
    /\ run_traj.pc = "returned"
    /\ run_traj.invocations > run_traj.maxAttempts
    /\ run_traj.printed = run_traj.invocations

SweepFree(lines) == \A k \in 1..Len(lines) : ~HasSweep(lines[k])

\* C20 as stated: when write_bin_paramfile has returned, it has written one
\* line per line read, a line without sweep_mult unchanged, a line with
\* sweep_mult with its last entry replaced by bounds[0]-bounds[1], and it
\* has printed the error exactly when no line read contains sweep_mult.
C20_ParamfileRewritten ==
    write_bin_paramfile.pc = "returned" =>
        LET r == write_bin_paramfile.readfile
            w == write_bin_paramfile.writefile
            b == write_bin_paramfile.bounds
        IN /\ Len(w) = Len(r)
           /\ \A k \in 1..Len(r) :
                 IF ~HasSweep(r[k]) THEN w[k] = r[k]
                 ELSE LET entries == splitWhitespace(r[k])
                      IN splitWhitespace(w[k]) =
                            SubSeq(entries, 1, Len(entries) - 1) \o <<<<b[1], "-", b[2]>>>>
           /\ (write_bin_paramfile.printed # <<>>) <=> SweepFree(r)

\* the files of the directory that hold at least one line
NonEmptyFiles(directory) ==
    {x \in FileNumbers : directory[x].kind = "file" /\ directory[x].lines > 0}

\* C21 as stated: on a directory without subdirectories, check_bin_filled
\* returns True exactly when the directory holds at least numsims non-empty
\* files.
C21_FilledCountsNonEmptyFiles ==
    (/\ check_bin_filled.pc = "returned"
     /\ \A x \in FileNumbers : check_bin_filled.directory[x].kind # "dir") =>
        (check_bin_filled.result <=>
            Cardinality(NonEmptyFiles(check_bin_filled.directory))
                >= check_bin_filled.numsims)

====
